---------------------------- MODULE Spec2Model ----------------------------
(***************************************************************************)
(* Model of ceph_nvmeof_gateway/controllers/doc.py: the OpenAPI document   *)
(* generator (class Docs).                                                 *)
(*                                                                         *)
(* Encoding of Python values:                                              *)
(*   - a str that the code inspects character by character (parameter     *)
(*     names, tag names) is a tuple of one-character strings;              *)
(*   - a dict is a function (a record when its keys are identifiers);      *)
(*     "k in d" is  k \in DOMAIN d;                                        *)
(*   - a list is a sequence;                                               *)
(*   - a default value is a record [t |-> its Python type, v |-> repr];    *)
(*   - a type marker (str, int, ..., [int]) is the string naming it;       *)
(*   - a URL path is its rank in the lexical order of the registered       *)
(*     paths, so that sorting paths is sorting numbers.                    *)
(***************************************************************************)
EXTENDS Integers, Sequences, FiniteSets, TLC

VARIABLES
    ENDPOINT_MAP,   \* the endpoint registry: path -> list of endpoints
    request,        \* the arguments of the call in progress / last made
    response,       \* what the call returned
    pc,             \* "call" before the call, "return" after it
    ngen            \* number of documents generated so far

vars == <<ENDPOINT_MAP, request, response, pc, ngen>>

None == "None"

---------------------------------------------------------------------------
(* Bounds of the model *)

MaxParams == 2      \* longest parameter list drawn as an input
MaxOverrides == 2   \* most entries of a p_info / resp_object drawn
MaxCtrl == 3        \* most controllers in a registry of the tag runs
MaxEndpoints == 3   \* most endpoints in a registry of the document runs
MaxGen == 2         \* most documents generated in one run

---------------------------------------------------------------------------
(* Python str operations on tuples of characters *)

\* The characters of the model in code point order ('A' < '_' < 'a').
Alphabet ==
    <<"A","B","C","D","E","F","G","H","I","J","K","L","M","N","O","P","Q",
      "R","S","T","U","V","W","X","Y","Z","_",
      "a","b","c","d","e","f","g","h","i","j","k","l","m","n","o","p","q",
      "r","s","t","u","v","w","x","y","z">>

ord(c) == CHOOSE i \in 1..Len(Alphabet) : Alphabet[i] = c

\* a < b on str: lexicographic by code point, a proper prefix first
RECURSIVE StrLess(_, _)
StrLess(a, b) ==
    IF b = <<>> THEN FALSE
    ELSE IF a = <<>> THEN TRUE
    ELSE IF Head(a) = Head(b) THEN StrLess(Tail(a), Tail(b))
    ELSE ord(Head(a)) < ord(Head(b))

\* s.startswith(prefix)
startswith(s, prefix) ==
    Len(s) >= Len(prefix) /\ SubSeq(s, 1, Len(prefix)) = prefix

\* sub in s
contains(s, sub) ==
    \E i \in 1..(Len(s) - Len(sub) + 1) : SubSeq(s, i, i + Len(sub) - 1) = sub

\* method.lower()
lower(method) ==
    CASE method \in {"GET", "get", "Get"} -> "get"
      [] method \in {"POST", "post", "Post"} -> "post"
      [] method \in {"PUT", "put", "Put"} -> "put"
      [] method \in {"DELETE", "delete", "Delete"} -> "delete"

---------------------------------------------------------------------------
(* Python values used as defaults *)

PyNone == [t |-> "NoneType", v |-> "None"]
PyTrue == [t |-> "bool", v |-> "True"]
PyFalse == [t |-> "bool", v |-> "False"]
PyInt0 == [t |-> "int", v |-> "0"]
PyInt7 == [t |-> "int", v |-> "7"]
PyStrX == [t |-> "str", v |-> "x"]
PyFloat == [t |-> "float", v |-> "1.5"]

\* isinstance(v, bool)
isinstance_bool(v) == v.t = "bool"

\* isinstance(v, int): bool is a subclass of int
isinstance_int(v) == v.t \in {"int", "bool"}

---------------------------------------------------------------------------
(* SchemaType and Schema (controllers/__init__.py) *)

SchemaType ==
    [ARRAY |-> "array", BOOLEAN |-> "boolean", INTEGER |-> "integer",
     NUMBER |-> "number", OBJECT |-> "object", STRING |-> "string"]

\* Schema(schema_type, properties, required).as_dict()
Schema_as_dict(schema_type, properties, required) ==
    IF schema_type = SchemaType.ARRAY
    THEN [type |-> schema_type, items |-> properties, required |-> required]
    ELSE [type |-> schema_type, properties |-> properties,
          required |-> required]

NO_DESCRIPTION_AVAILABLE == "*No description available*"

---------------------------------------------------------------------------
(* Docs._gen_type *)

size == <<"s","i","z","e">>
count == <<"c","o","u","n","t">>
num == <<"n","u","m">>
is_ == <<"i","s","_">>

\* lines 76-77 moved below the substring checks
_gen_type_NumericFirst(param) ==
    LET param_name == param.name
        def_value == IF "default" \in DOMAIN param THEN param.default
                     ELSE PyNone
    IN  IF contains(param_name, size) THEN SchemaType.INTEGER
        ELSE IF contains(param_name, count) THEN SchemaType.INTEGER
        ELSE IF contains(param_name, num) THEN SchemaType.INTEGER
        ELSE IF startswith(param_name, is_) THEN SchemaType.BOOLEAN
        ELSE IF isinstance_bool(def_value) THEN SchemaType.BOOLEAN
        ELSE IF isinstance_int(def_value) THEN SchemaType.INTEGER
        ELSE SchemaType.STRING

_gen_type(param) ==
    LET param_name == param.name
        def_value == IF "default" \in DOMAIN param THEN param.default
                     ELSE PyNone
    IN  IF startswith(param_name, is_) THEN SchemaType.BOOLEAN
        ELSE IF contains(param_name, size) THEN SchemaType.INTEGER
        ELSE IF contains(param_name, count) THEN SchemaType.INTEGER
        ELSE IF contains(param_name, num) THEN SchemaType.INTEGER
        ELSE IF isinstance_bool(def_value) THEN SchemaType.BOOLEAN
        ELSE IF isinstance_int(def_value) THEN SchemaType.INTEGER
        ELSE SchemaType.STRING

---------------------------------------------------------------------------
(* Docs._type_to_str *)

_type_to_str(type_as_type) ==
    IF type_as_type = "str" THEN SchemaType.STRING
    ELSE IF type_as_type = "int" THEN SchemaType.INTEGER
    ELSE IF type_as_type = "bool" THEN SchemaType.BOOLEAN
    ELSE IF type_as_type = "list" \/ type_as_type = "tuple"
         THEN SchemaType.ARRAY
    ELSE IF type_as_type = "float" THEN SchemaType.NUMBER
    ELSE SchemaType.OBJECT

\* param['type'][0] for a type given as a one-element list, e.g. [int]
type_item(type_as_type) ==
    CASE type_as_type = "[int]" -> "int"
      [] type_as_type = "[str]" -> "str"
      [] type_as_type = "[dict]" -> "dict"


---------------------------------------------------------------------------
(* Docs._add_param_info *)

RECURSIVE _add_param_info(_, _)

\* line 131-133 / 143-144: p's nested_params, merged against an empty list
nested_params_key(p) ==
    IF "nested_params" \in DOMAIN p
    THEN "nested_params" :> _add_param_info(<<>>, p.nested_params)
    ELSE <<>>

\* the docstring's reading: only information that does not exist is added
overwrite_IfAbsent(parameter, p) ==
    nested_params_key(p) @@ parameter
        @@ ("type" :> p.type) @@ ("description" :> p.description)

\* lines 129-133: a matching parameter takes the override's type and
\* description (and nested_params)
overwrite(parameter, p) ==
    nested_params_key(p) @@ ("type" :> p.type)
        @@ ("description" :> p.description) @@ parameter

\* lines 135-144: the descriptor synthesized from a nested override
nested_p(p) ==
    nested_params_key(p)
        @@ (IF "default" \in DOMAIN p THEN "default" :> p.default ELSE <<>>)
        @@ [name |-> p.name, type |-> p.type,
            description |-> p.description, required |-> p.required]

\* lines 126-145: one iteration of "for p in p_info"
add_one(parameters, p) ==
    IF ~p.nested
    THEN [i \in 1..Len(parameters) |->
             IF p.name = parameters[i].name
             THEN overwrite(parameters[i], p)
             ELSE parameters[i]]
    ELSE Append(parameters, nested_p(p))

\* The list returned is the list passed in, changed in place.
_add_param_info(parameters, p_info) ==
    IF p_info = <<>> THEN parameters
    ELSE _add_param_info(add_one(parameters, Head(p_info)), Tail(p_info))

---------------------------------------------------------------------------
(* Docs._gen_schema_for_content, for params a list (schema_type OBJECT) *)

RECURSIVE _gen_schema_for_content(_)

\* required_params.insert(0, ...) in place of append
RECURSIVE required_params_Prepend(_)
required_params_Prepend(params) ==
    IF params = <<>> THEN <<>>
    ELSE required_params_Prepend(Tail(params))
           \o (IF Head(params).required THEN <<Head(params).name>> ELSE <<>>)

\* lines 155, 163-164
RECURSIVE required_params(_)
required_params(params) ==
    IF params = <<>> THEN <<>>
    ELSE (IF Head(params).required THEN <<Head(params).name>> ELSE <<>>)
           \o required_params(Tail(params))

\* lines 179-182: description and default are carried through
carry_through(param, props) ==
    (IF "default" \in DOMAIN param THEN "default" :> param.default ELSE <<>>)
        @@ (IF "description" \in DOMAIN param
            THEN "description" :> param.description ELSE <<>>)
        @@ props

\* "dict in dict" keeping the parent's type beside the child's properties
typed_props_KeepParentType(param) ==
    LET type == _type_to_str(param.type)
    IN  IF "nested_params" \in DOMAIN param
        THEN IF type = SchemaType.ARRAY
             THEN [type |-> type,
                   items |-> _gen_schema_for_content(param.nested_params)]
             ELSE [type |-> type,
                   properties |->
                     _gen_schema_for_content(param.nested_params).properties]
        ELSE IF type = SchemaType.OBJECT
             THEN [type |-> SchemaType.ARRAY,
                   items |-> [type |-> _type_to_str(type_item(param.type))]]
             ELSE [type |-> type]

\* lines 168-176: the fragment of a parameter with an explicit type
typed_props(param) ==
    LET type == _type_to_str(param.type)
    IN  IF "nested_params" \in DOMAIN param
        THEN IF type = SchemaType.ARRAY
             THEN [type |-> type,
                   items |-> _gen_schema_for_content(param.nested_params)]
             ELSE _gen_schema_for_content(param.nested_params)
        ELSE IF type = SchemaType.OBJECT
             THEN [type |-> SchemaType.ARRAY,
                   items |-> [type |-> _type_to_str(type_item(param.type))]]
             ELSE [type |-> type]

\* lines 166-182: props of one parameter
props_of(param) ==
    carry_through(param,
        IF "type" \in DOMAIN param THEN typed_props(param)
        ELSE [type |-> _gen_type(param)])

\* lines 156, 183: properties[param['name']] = props, a later parameter of
\* the same name replacing an earlier one
properties_of(params) ==
    [n \in {params[i].name : i \in 1..Len(params)} |->
        LET last == CHOOSE i \in 1..Len(params) :
                        /\ params[i].name = n
                        /\ \A j \in (i+1)..Len(params) : params[j].name # n
        IN  props_of(params[last])]

_gen_schema_for_content(params) ==
    Schema_as_dict(SchemaType.OBJECT, properties_of(params),
                   required_params(params))

---------------------------------------------------------------------------
(* Docs._gen_responses; resp_object None or {} is the empty function *)

generic_content == "application/json" :> [type |-> "object"]

\* lines 192-201
baseline_resp ==
    ("400" :> [description |->
        "Operation exception. Please check the response body for details."])
    @@ ("500" :> [description |->
        "Unexpected error. Please check the response body for the stack trace."])

\* lines 202-217; a later assignment to a key replaces an earlier one
method_resp(method) ==
    (IF lower(method) \in {"post", "put", "delete"}
     THEN "202" :> [description |->
              "Operation is still executing. Please check the task queue.",
              content |-> generic_content]
     ELSE <<>>)
    @@ (IF lower(method) = "delete"
        THEN "204" :> [description |-> "Resource deleted.",
                       content |-> generic_content]
        ELSE <<>>)
    @@ (IF lower(method) = "put"
        THEN "200" :> [description |-> "Resource updated.",
                       content |-> generic_content]
        ELSE <<>>)
    @@ (IF lower(method) = "post"
        THEN "201" :> [description |-> "Resource created.",
                       content |-> generic_content]
        ELSE <<>>)
    @@ (IF lower(method) = "get"
        THEN "200" :> [description |-> "OK", content |-> generic_content]
        ELSE <<>>)
    @@ baseline_resp

\* lines 222-225: resp[status_code].update({'content': ...})
override_content(entry, response_body) ==
    ("content" :> ("application/json" :>
        [schema |-> _gen_schema_for_content(response_body)])) @@ entry

\* the test "if status_code in resp" left out
apply_overrides_NoMembershipTest(resp, resp_object) ==
    [status_code \in DOMAIN resp \cup DOMAIN resp_object |->
        IF status_code \in DOMAIN resp_object
        THEN override_content(
                 IF status_code \in DOMAIN resp THEN resp[status_code]
                 ELSE <<>>,
                 resp_object[status_code])
        ELSE resp[status_code]]

\* lines 219-225
apply_overrides(resp, resp_object) ==
    [status_code \in DOMAIN resp |->
        IF status_code \in DOMAIN resp_object
        THEN override_content(resp[status_code], resp_object[status_code])
        ELSE resp[status_code]]

_gen_responses(method, resp_object) ==
    apply_overrides(method_resp(method), resp_object)

---------------------------------------------------------------------------
(* Docs._gen_params *)

\* lines 233-252: one entry of the parameters list.  param['default'] of a
\* parameter that is not required and has no default is a KeyError; here the
\* evaluation fails.
gen_param(param, location) ==
    LET _type == IF "type" \in DOMAIN param THEN _type_to_str(param.type)
                 ELSE _gen_type(param)
        res == [name |-> param.name, in |-> location,
                schema |-> [type |-> _type]]
        descr == IF "description" \in DOMAIN param /\ param.description # ""
                 THEN "description" :> param.description ELSE <<>>
    IN  IF param.required THEN ("required" :> TRUE) @@ descr @@ res
        ELSE IF param.default = PyNone
             THEN ("allowEmptyValue" :> TRUE) @@ descr @@ res
        ELSE ("default" :> param.default) @@ descr @@ res

_gen_params(params, location) ==
    [i \in 1..Len(params) |-> gen_param(params[i], location)]

---------------------------------------------------------------------------
(* Sequences without repetition, of bounded length *)

\* the sequences over S of length at most n whose elements are distinct
RECURSIVE DistinctSeqs(_, _)
DistinctSeqs(S, n) ==
    IF n = 0 THEN {<<>>}
    ELSE LET shorter == DistinctSeqs(S, n - 1)
         IN  shorter \cup
             {Append(q, x) : <<q, x>> \in
                 {<<q, x>> \in shorter \X S :
                     /\ Len(q) = n - 1
                     /\ \A i \in 1..Len(q) : q[i] # x}}

\* all sequences over S of length 1..n
RECURSIVE SeqsUpTo(_, _)
SeqsUpTo(S, n) ==
    IF n = 0 THEN {}
    ELSE LET shorter == SeqsUpTo(S, n - 1) \cup {<<>>}
         IN  {Append(q, x) : <<q, x>> \in
                 {<<q, x>> \in shorter \X S : Len(q) = n - 1}}
             \cup SeqsUpTo(S, n - 1)

Names(params) == {params[i].name : i \in 1..Len(params)}

---------------------------------------------------------------------------
(* Type inference runs: _gen_type on one parameter *)

TypeNames ==
    { <<"i","s","_","c","o","u","n","t">>, <<"i","s","_","s","i","z","e">>,
      <<"i","s","_","o","k">>, <<"i","s">>, <<"h","i","s","_","i","d">>,
      <<"p","a","g","e","_","s","i","z","e">>, count,
      <<"a","c","c","o","u","n","t","s">>, <<"n","u","m","_","i","d">>,
      <<"e","n","u","m">>, <<"l","a","b","e","l">>, <<"n","u">>,
      <<"s","i","z">> }

TypeDefaults == {PyNone, PyTrue, PyFalse, PyInt0, PyInt7, PyStrX, PyFloat}

TypeInputs ==
    {[name |-> n, required |-> TRUE] : n \in TypeNames}
    \cup {[name |-> n, required |-> FALSE, default |-> d] :
             n \in TypeNames, d \in TypeDefaults}

InitType ==
    /\ pc = "call"
    /\ request \in TypeInputs
    /\ response = None
    /\ ENDPOINT_MAP = <<>>
    /\ ngen = 0

Call_gen_type ==
    /\ pc = "call"
    /\ response' = _gen_type(request)
    /\ pc' = "return"
    /\ UNCHANGED <<ENDPOINT_MAP, request, ngen>>

SpecType == InitType /\ [][Call_gen_type]_vars

\* C4: _gen_type applies its rules in fixed priority, first match wins:
\* a name starting with "is_" gives boolean; else a name containing "size",
\* "count" or "num" gives integer; else a boolean default gives boolean;
\* else an integer default gives integer; else string.  So is_count is
\* boolean whatever its default, a name rule overrides the default rules,
\* and the result is one of boolean, integer, string.
C4_TypePriority ==
    pc = "return" =>
        LET n == request.name
            hasDefault == "default" \in DOMAIN request
            nameBool == Len(n) >= 3 /\ n[1] = "i" /\ n[2] = "s" /\ n[3] = "_"
            nameInt == \E w \in {size, count, num} :
                          \E i \in 1..Len(n) : \E j \in i..Len(n) :
                              SubSeq(n, i, j) = w
            defBool == hasDefault /\ request.default \in {PyTrue, PyFalse}
            defInt == hasDefault /\ request.default \in {PyInt0, PyInt7}
        IN  /\ response \in {"boolean", "integer", "string"}
            /\ nameBool => response = "boolean"
            /\ ~nameBool /\ nameInt => response = "integer"
            /\ ~nameBool /\ ~nameInt /\ defBool => response = "boolean"
            /\ ~nameBool /\ ~nameInt /\ ~defBool /\ defInt
                   => response = "integer"
            /\ ~nameBool /\ ~nameInt /\ ~defBool /\ ~defInt
                   => response = "string"
            /\ n = <<"i","s","_","c","o","u","n","t">>
                   => response = "boolean"

\* is_count with an integer default has been inferred boolean
C4_Witness ==
    /\ pc = "return"
    /\ request.name = <<"i","s","_","c","o","u","n","t">>
    /\ request.required = FALSE
    /\ request.default = PyInt7
    /\ response = "boolean"

---------------------------------------------------------------------------
(* Parameter descriptors used as inputs *)

n_a == <<"a">>
n_b == <<"b">>
n_c == <<"c">>
n_d == <<"d">>
n_x == <<"x">>
n_y == <<"y">>
n_id == <<"i","d">>
n_name == <<"n","a","m","e">>
n_nmae == <<"n","m","a","e">>
n_port == <<"p","o","r","t">>
n_force == <<"f","o","r","c","e">>

\* nested descriptors as _add_param_info leaves them
NestedX ==
    [name |-> n_x, type |-> "int", description |-> "x", required |-> TRUE]
NestedY ==
    [name |-> n_y, type |-> "str", description |-> "y", required |-> FALSE,
     default |-> PyStrX]

---------------------------------------------------------------------------
(* Response runs: _gen_responses(method, resp_object) *)

Methods == {"GET", "POST", "PUT", "DELETE"}
MethodSpellings == Methods \cup {"get", "Delete"}
StatusCodes == {"200", "201", "202", "204", "400", "404", "500"}

RespBodies ==
    { <<[name |-> n_a, required |-> TRUE]>>,
      <<[name |-> n_b, required |-> FALSE, type |-> "list",
         description |-> "b", nested_params |-> <<NestedX>>],
        [name |-> n_a, required |-> TRUE, type |-> "str"]>> }

RespObjects ==
    UNION {[codes -> RespBodies] :
              codes \in {c \in SUBSET StatusCodes :
                            Cardinality(c) <= MaxOverrides}}

InitResp ==
    /\ pc = "call"
    /\ request \in [method : MethodSpellings, resp_object : RespObjects]
    /\ response = None
    /\ ENDPOINT_MAP = <<>>
    /\ ngen = 0

Call_gen_responses ==
    /\ pc = "call"
    /\ response' = _gen_responses(request.method, request.resp_object)
    /\ pc' = "return"
    /\ UNCHANGED <<ENDPOINT_MAP, request, ngen>>

SpecResp == InitResp /\ [][Call_gen_responses]_vars

ExpectedCodes(method) ==
    CASE method \in {"GET", "get"} -> {"200", "400", "500"}
      [] method = "POST" -> {"201", "202", "400", "500"}
      [] method = "PUT" -> {"200", "202", "400", "500"}
      [] method \in {"DELETE", "Delete"} -> {"202", "204", "400", "500"}

\* C3: the status codes returned by _gen_responses depend only on the
\* method ({200,400,500} for GET, {201,202,400,500} for POST,
\* {200,202,400,500} for PUT, {202,204,400,500} for DELETE); an override
\* for a code of the method's set only replaces that entry's content by the
\* schema built from the override, and overrides for other codes leave the
\* result as it is without them.
C3_ResponseCodes ==
    pc = "return" =>
        LET ro == request.resp_object
            plain == _gen_responses(request.method, <<>>)
        IN  /\ DOMAIN response = ExpectedCodes(request.method)
            /\ \A c \in DOMAIN response :
                  IF c \in DOMAIN ro
                  THEN /\ DOMAIN response[c] = {"description", "content"}
                       /\ response[c].description = plain[c].description
                       /\ response[c].content =
                            ("application/json" :>
                               [schema |-> _gen_schema_for_content(ro[c])])
                  ELSE response[c] = plain[c]
            /\ (DOMAIN ro \cap ExpectedCodes(request.method) = {}
                   => response = plain)

\* DELETE with an override for 204 (in its set) and one for 404 (outside)
C3_Witness ==
    /\ pc = "return"
    /\ request.method = "DELETE"
    /\ DOMAIN request.resp_object = {"204", "404"}
    /\ "schema" \in DOMAIN response["204"].content["application/json"]

---------------------------------------------------------------------------
(* Merge runs: _add_param_info(parameters, p_info) *)

BaseParams ==
    { [name |-> n_name, required |-> TRUE],
      [name |-> count, required |-> FALSE, default |-> PyInt0],
      [name |-> n_id, required |-> TRUE, type |-> "int",
       description |-> "old"] }

Overrides ==
    { [name |-> n_name, type |-> "str", description |-> "The name",
       required |-> TRUE, nested |-> FALSE],
      [name |-> n_id, type |-> "str", description |-> "new",
       required |-> TRUE, nested |-> FALSE],
      [name |-> n_nmae, type |-> "int", description |-> "misspelt",
       required |-> TRUE, nested |-> FALSE],
      [name |-> count, type |-> "list", description |-> "counts",
       required |-> FALSE, nested |-> FALSE,
       nested_params |->
           <<[name |-> n_x, type |-> "int", description |-> "x",
              required |-> TRUE, nested |-> TRUE]>>],
      [name |-> n_port, type |-> "int", description |-> "port",
       required |-> TRUE, nested |-> TRUE],
      [name |-> n_name, type |-> "str", description |-> "inner name",
       required |-> FALSE, default |-> PyStrX, nested |-> TRUE] }

InitMerge ==
    /\ pc = "call"
    /\ request \in [parameters : DistinctSeqs(BaseParams, MaxParams),
                    p_info : SeqsUpTo(Overrides, MaxOverrides)]
    /\ response = None
    /\ ENDPOINT_MAP = <<>>
    /\ ngen = 0

Call_add_param_info ==
    /\ pc = "call"
    /\ response' = _add_param_info(request.parameters, request.p_info)
    /\ pc' = "return"
    /\ UNCHANGED <<ENDPOINT_MAP, request, ngen>>

SpecMerge == InitMerge /\ [][Call_add_param_info]_vars

---------------------------------------------------------------------------
(* Schema runs: _gen_schema_for_content(params) *)

MaxSchemaParams == 3    \* longest parameter list of a schema run

SchemaNames == {n_a, n_b, n_c, n_d}

\* the descriptors a parameter named n may have
SchemaShapes(n) ==
    { [name |-> n, required |-> FALSE, default |-> PyInt7],
      [name |-> n, required |-> TRUE, type |-> "[int]"],
      [name |-> n, required |-> TRUE, type |-> "list",
       description |-> "rows", nested_params |-> <<NestedX, NestedY>>],
      [name |-> n, required |-> FALSE, type |-> "tuple",
       nested_params |-> <<NestedY>>],
      [name |-> n, required |-> FALSE, type |-> "dict",
       nested_params |-> <<NestedX>>],
      [name |-> n, required |-> TRUE, type |-> "dict",
       description |-> "point", default |-> PyNone,
       nested_params |-> <<NestedY, NestedX>>] }

\* parameter lists of distinct names
RECURSIVE SchemaInputs(_)
SchemaInputs(n) ==
    IF n = 0 THEN {<<>>}
    ELSE LET shorter == SchemaInputs(n - 1)
         IN  shorter \cup
             UNION {{Append(q, d) : d \in SchemaShapes(x)} : <<q, x>> \in
                 {<<q, x>> \in shorter \X SchemaNames :
                     Len(q) = n - 1 /\ x \notin Names(q)}}

InitSchema ==
    /\ pc = "call"
    /\ request \in SchemaInputs(MaxSchemaParams)
    /\ response = None
    /\ ENDPOINT_MAP = <<>>
    /\ ngen = 0

Call_gen_schema_for_content ==
    /\ pc = "call"
    /\ response' = _gen_schema_for_content(request)
    /\ pc' = "return"
    /\ UNCHANGED <<ENDPOINT_MAP, request, ngen>>

SpecSchema == InitSchema /\ [][Call_gen_schema_for_content]_vars

\* C7: the required list of the schema is exactly the names of the input
\* parameters whose required flag is true, in the order of the input list;
\* it is never reordered and holds no parameter that is not required.
C7_RequiredInOrder ==
    pc = "return" =>
        LET req == SelectSeq(request, LAMBDA p : p.required)
        IN  response.required = [i \in 1..Len(req) |-> req[i].name]

\* three required parameters in the order b, a, c
C7_Witness ==
    /\ pc = "return"
    /\ Len(request) = 3
    /\ \A i \in 1..3 : request[i].required
    /\ <<request[1].name, request[2].name, request[3].name>>
           = <<n_b, n_a, n_c>>
    /\ response.required = <<n_b, n_a, n_c>>

HasNested(param) == "nested_params" \in DOMAIN param
IsArrayType(param) == param.type \in {"list", "tuple"}

\* C8 as stated: a parameter with nested params of array type yields
\* exactly {type: array, items: S}, one of any other type yields exactly S,
\* S being the schema built from its nested params.
C8_FragmentIsExactlyNested ==
    pc = "return" =>
        \A i \in 1..Len(request) :
            HasNested(request[i]) =>
                LET S == _gen_schema_for_content(request[i].nested_params)
                    fragment == response.properties[request[i].name]
                IN  IF IsArrayType(request[i])
                    THEN fragment = [type |-> "array", items |-> S]
                    ELSE fragment = S

\* C8 (amended): a parameter with nested params of array type yields
\* {type: array, items: S}, one of any other type yields S with the
\* parent's own type discarded, S being the object schema built from its
\* nested params -- in both cases with the parameter's own description and
\* default added when it has them; the nested field names of the fragment
\* are exactly the names of the nested params.
C8_NestedFragment ==
    pc = "return" =>
        \A i \in 1..Len(request) :
            HasNested(request[i]) =>
                LET param == request[i]
                    S == _gen_schema_for_content(param.nested_params)
                    fragment == response.properties[param.name]
                    carried == DOMAIN param \cap {"description", "default"}
                    own == [k \in DOMAIN fragment \ carried |-> fragment[k]]
                    fields == IF IsArrayType(param)
                              THEN DOMAIN fragment.items.properties
                              ELSE DOMAIN fragment.properties
                IN  /\ carried \subseteq DOMAIN fragment
                    /\ \A k \in carried : fragment[k] = param[k]
                    /\ IF IsArrayType(param)
                       THEN own = [type |-> "array", items |-> S]
                       ELSE own = S
                    /\ S.type = "object"
                    /\ fields = Names(param.nested_params)

\* an array parameter and an object parameter, both with nested params and
\* a description, have been turned into fragments
C8_Witness ==
    /\ pc = "return"
    /\ \E i, j \in 1..Len(request) :
          /\ HasNested(request[i]) /\ IsArrayType(request[i])
          /\ "description" \in DOMAIN request[i]
          /\ response.properties[request[i].name].type = "array"
          /\ HasNested(request[j]) /\ request[j].type = "dict"
          /\ "description" \in DOMAIN request[j]
          /\ DOMAIN response.properties[request[j].name].properties
                 = {n_x, n_y}

---------------------------------------------------------------------------
(* Docs._gen_tags.  The registry is passed explicitly; order is the order *)
(* in which "for ctrl in list_of_ctrl" visits the set.                    *)

\* the orders in which a set can be iterated
Orderings(S) ==
    {q \in DistinctSeqs(S, Cardinality(S)) : Len(q) = Cardinality(S)}

\* lines 32-36
list_of_ctrl(registry, all_endpoints) ==
    UNION {{registry[path][i].ctrl : i \in
               {i \in 1..Len(registry[path]) :
                   ~registry[path][i].is_backend_api \/ all_endpoints}}
              : path \in DOMAIN registry}

\* lines 40-45: the tag name and description a controller declares
ctrl_tag(ctrl) ==
    IF "doc_info" \in DOMAIN ctrl
    THEN [tag_name |-> IF ctrl.doc_info.tag # <<>> THEN ctrl.doc_info.tag
                       ELSE ctrl.__name__,
          tag_descr |-> ctrl.doc_info.tag_descr]
    ELSE [tag_name |-> ctrl.__name__, tag_descr |-> ""]

\* "if tag_name not in tag_map" alone: the first occurrence always wins
tag_map_put_FirstWins(tag_map, tag_name, tag_descr) ==
    IF \E i \in 1..Len(tag_map) : tag_map[i].k = tag_name
    THEN tag_map
    ELSE Append(tag_map, [k |-> tag_name, v |-> tag_descr])

\* lines 46-47; tag_map is the list of its items in insertion order
tag_map_put(tag_map, tag_name, tag_descr) ==
    IF \E i \in 1..Len(tag_map) : tag_map[i].k = tag_name
    THEN [i \in 1..Len(tag_map) |->
             IF tag_map[i].k = tag_name /\ tag_map[i].v = ""
             THEN [k |-> tag_name, v |-> tag_descr]
             ELSE tag_map[i]]
    ELSE Append(tag_map, [k |-> tag_name, v |-> tag_descr])

\* lines 38-47
RECURSIVE build_tag_map(_, _)
build_tag_map(order, tag_map) ==
    IF order = <<>> THEN tag_map
    ELSE LET t == ctrl_tag(Head(order))
         IN  build_tag_map(Tail(order),
                           tag_map_put(tag_map, t.tag_name, t.tag_descr))

\* line 51: tags.sort(key=lambda e: e['name']), a stable insertion sort
RECURSIVE insert_by_name(_, _)
insert_by_name(sorted, e) ==
    IF sorted = <<>> THEN <<e>>
    ELSE IF StrLess(e.name, Head(sorted).name)
         THEN <<e>> \o sorted
         ELSE <<Head(sorted)>> \o insert_by_name(Tail(sorted), e)

RECURSIVE sort_by_name(_)
sort_by_name(tags) ==
    IF tags = <<>> THEN <<>>
    ELSE insert_by_name(sort_by_name(SubSeq(tags, 1, Len(tags) - 1)),
                        tags[Len(tags)])

_gen_tags(registry, all_endpoints, order) ==
    LET tag_map == build_tag_map(order, <<>>)
        tags == [i \in 1..Len(tag_map) |->
                    [name |-> tag_map[i].k,
                     description |-> IF tag_map[i].v # "" THEN tag_map[i].v
                                     ELSE NO_DESCRIPTION_AVAILABLE]]
    IN  sort_by_name(tags)

---------------------------------------------------------------------------
(* Docs._get_tag *)

\* the controller-level override ignored
_get_tag_NoCtrlOverride(endpoint) ==
    LET ctrl == endpoint.ctrl
        func == endpoint.func
    IN  IF "doc_info" \in DOMAIN func /\ func.doc_info.tag # <<>>
        THEN func.doc_info.tag
        ELSE ctrl.__name__

_get_tag(endpoint) ==
    LET ctrl == endpoint.ctrl
        func == endpoint.func
    IN  IF "doc_info" \in DOMAIN func /\ func.doc_info.tag # <<>>
        THEN func.doc_info.tag
        ELSE IF "doc_info" \in DOMAIN ctrl /\ ctrl.doc_info.tag # <<>>
        THEN ctrl.doc_info.tag
        ELSE ctrl.__name__

---------------------------------------------------------------------------
(* Tag runs: _gen_tags over registries of one endpoint per controller *)

c_Auth == <<"A","u","t","h">>
c_Host == <<"H","o","s","t">>
t_auth == <<"a","u","t","h">>

CtrlDocInfos ==
    { [tag |-> <<>>, tag_descr |-> "d1"],
      [tag |-> t_auth, tag_descr |-> ""],
      [tag |-> t_auth, tag_descr |-> "d1"],
      [tag |-> t_auth, tag_descr |-> "d2"] }

CtrlPool ==
    {[__name__ |-> n] : n \in {c_Auth, c_Host}}
    \cup {[__name__ |-> n, doc_info |-> d] :
             n \in {c_Auth, c_Host}, d \in CtrlDocInfos}

plain_func == [__doc__ |-> "List the entries."]

\* a GET endpoint of ctrl without parameters
bare_endpoint(ctrl, internal) ==
    [method |-> "GET", ctrl |-> ctrl, func |-> plain_func,
     path_params |-> <<>>, query_params |-> <<>>, body_params |-> <<>>,
     is_backend_api |-> internal]

\* one path per controller, each with one endpoint
TagRegistries ==
    UNION {
        LET q == CHOOSE q \in Orderings(S) : TRUE
        IN  {[path \in 1..Len(q) |-> <<bare_endpoint(q[path], flags[path])>>]
                : flags \in [1..Len(q) -> BOOLEAN]}
        : S \in {S \in SUBSET CtrlPool :
                    Cardinality(S) >= 1 /\ Cardinality(S) <= MaxCtrl}}

InitTags ==
    /\ pc = "call"
    /\ ENDPOINT_MAP \in TagRegistries
    /\ request \in [all_endpoints : BOOLEAN]
    /\ response = None
    /\ ngen = 0

Call_gen_tags ==
    /\ pc = "call"
    /\ \E order \in
           Orderings(list_of_ctrl(ENDPOINT_MAP, request.all_endpoints)) :
          /\ response' = _gen_tags(ENDPOINT_MAP, request.all_endpoints, order)
          /\ request' = [all_endpoints |-> request.all_endpoints,
                         order |-> order]
    /\ pc' = "return"
    /\ UNCHANGED <<ENDPOINT_MAP, ngen>>

SpecTags == InitTags /\ [][Call_gen_tags]_vars

RegisteredEndpoints ==
    UNION {{ENDPOINT_MAP[path][i] : i \in 1..Len(ENDPOINT_MAP[path])}
              : path \in DOMAIN ENDPOINT_MAP}

\* the controllers of the registry that own an endpoint the flag admits
VisibleCtrls ==
    {e.ctrl : e \in {e \in RegisteredEndpoints :
                        request.all_endpoints \/ ~e.is_backend_api}}

ClaimedTag(ctrl) ==
    IF "doc_info" \in DOMAIN ctrl /\ Len(ctrl.doc_info.tag) > 0
    THEN ctrl.doc_info.tag ELSE ctrl.__name__

DeclaredDescr(ctrl) ==
    IF "doc_info" \in DOMAIN ctrl THEN ctrl.doc_info.tag_descr ELSE ""

\* C2: the tags list has exactly one entry per distinct tag name claimed by
\* a visible controller and is sorted by name ascending; when the
\* controllers claiming a name declare at most one distinct non-empty
\* description, the entry has that description whatever the order in which
\* the controllers were processed, and the placeholder only if all of them
\* declare an empty one.
C2_TagDescriptions ==
    pc = "return" =>
        LET names == {ClaimedTag(c) : c \in VisibleCtrls}
        IN  /\ {response[i].name : i \in 1..Len(response)} = names
            /\ Len(response) = Cardinality(names)
            /\ \A i, j \in 1..Len(response) :
                  i < j => StrLess(response[i].name, response[j].name)
            /\ \A i \in 1..Len(response) :
                  LET declared ==
                          {DeclaredDescr(c) : c \in
                              {c \in VisibleCtrls :
                                  ClaimedTag(c) = response[i].name}} \ {""}
                  IN  /\ declared = {} =>
                            response[i].description =
                                "*No description available*"
                      /\ Cardinality(declared) = 1 =>
                            response[i].description \in declared

\* a controller with an empty description was processed before another one
\* claiming the same tag with a description, and the description won
C2_Witness ==
    /\ pc = "return"
    /\ Len(request.order) >= 2
    /\ ClaimedTag(request.order[1]) = ClaimedTag(request.order[2])
    /\ DeclaredDescr(request.order[1]) = ""
    /\ DeclaredDescr(request.order[2]) = "d1"
    /\ \E i \in 1..Len(response) :
          /\ response[i].name = ClaimedTag(request.order[1])
          /\ response[i].description = "d1"

---------------------------------------------------------------------------
(* Docs._gen_paths.  endpoint.path_params, .query_params and .body_params  *)
(* are the lists the endpoint descriptor holds; _add_param_info changes    *)
(* the list it is given, so the walk returns the registry as it leaves it. *)

method_order == <<"get", "post", "put", "delete">>

\* lines 266-267: the indices of endpoints in the order of
\* sorted(endpoints, key=method_order.index), a stable sort
sorted_by_method(endpoints) ==
    LET indices == [i \in 1..Len(endpoints) |-> i]
        with(m) == SelectSeq(indices,
                             LAMBDA i : lower(endpoints[i].method) = m)
    IN  with(method_order[1]) \o with(method_order[2])
            \o with(method_order[3]) \o with(method_order[4])

schema_content(params) ==
    [content |-> ("application/json" :>
                     [schema |-> _gen_schema_for_content(params)])]

\* lines 305-315
body_request(has_body, body_params) ==
    IF has_body THEN "requestBody" :> schema_content(body_params) ELSE <<>>

\* lines 317-322
query_request(query_params) ==
    IF query_params # <<>>
    THEN "requestBody" :> schema_content(query_params) ELSE <<>>

\* the two assemblies in the other order
request_body_BodyLast(method, has_body, body_params, query_params) ==
    IF lower(method) \in {"post", "put"}
    THEN body_request(has_body, body_params) @@ query_request(query_params)
    ELSE <<>>

\* lines 304-322: the requestBody key of the operation; the assignment of
\* line 319 comes after the one of line 312 and replaces it
request_body(method, has_body, body_params, query_params) ==
    IF lower(method) \in {"post", "put"}
    THEN query_request(query_params) @@ body_request(has_body, body_params)
    ELSE <<>>

\* lines 273-322: the operation built for one endpoint, and the endpoint as
\* the calls of _add_param_info on its lists leave it
endpoint_step(endpoint) ==
    LET method == endpoint.method
        func == endpoint.func
        has_doc == "doc_info" \in DOMAIN func
        summary == IF has_doc THEN func.doc_info.summary ELSE ""
        resp == IF has_doc THEN func.doc_info.response ELSE <<>>
        p_info == IF has_doc THEN func.doc_info.parameters ELSE <<>>
        post_put == lower(method) \in {"post", "put"}
        has_body == endpoint.body_params # <<>>
        \* line 289
        path1 == IF endpoint.path_params # <<>>
                 THEN _add_param_info(endpoint.path_params, p_info)
                 ELSE endpoint.path_params
        \* line 293
        query1 == IF endpoint.query_params # <<>>
                  THEN _add_param_info(endpoint.query_params, p_info)
                  ELSE endpoint.query_params
        params == (IF path1 # <<>> THEN _gen_params(path1, "path")
                   ELSE <<>>)
                  \o (IF query1 # <<>> THEN _gen_params(query1, "query")
                      ELSE <<>>)
        \* lines 305-310
        merge_body == post_put /\ has_body
                          /\ "body_params_schema" \notin DOMAIN func
        body1 == IF merge_body
                 THEN _add_param_info(endpoint.body_params, p_info)
                 ELSE endpoint.body_params
        body_params == IF merge_body THEN body1 ELSE p_info
        \* line 318
        query2 == IF post_put /\ query1 # <<>>
                  THEN _add_param_info(query1, p_info)
                  ELSE query1
    IN  [operation |->
            request_body(method, has_body, body_params, query2)
            @@ (IF summary # "" THEN "summary" :> summary ELSE <<>>)
            @@ [tags |-> <<_get_tag(endpoint)>>,
                description |-> func.__doc__,
                parameters |-> params,
                responses |-> _gen_responses(method, resp)],
         endpoint |-> [endpoint EXCEPT !.path_params = path1,
                                       !.query_params = query2,
                                       !.body_params = body1]]

\* an internal endpoint is left out and the walk goes on
RECURSIVE walk_endpoints_NoBreak(_, _, _, _, _)
walk_endpoints_NoBreak(endpoints, order, k, methods, all_endpoints) ==
    IF k > Len(order)
    THEN [methods |-> methods, skip |-> FALSE, endpoints |-> endpoints]
    ELSE LET endpoint == endpoints[order[k]]
         IN  IF endpoint.is_backend_api /\ ~all_endpoints
             THEN walk_endpoints_NoBreak(endpoints, order, k + 1, methods,
                                         all_endpoints)
             ELSE LET step == endpoint_step(endpoint)
                  IN  walk_endpoints_NoBreak(
                          [endpoints EXCEPT ![order[k]] = step.endpoint],
                          order, k + 1,
                          (lower(endpoint.method) :> step.operation)
                              @@ methods,
                          all_endpoints)

\* lines 263-322: "for endpoint in endpoint_list" from position k on
RECURSIVE walk_endpoints(_, _, _, _, _)
walk_endpoints(endpoints, order, k, methods, all_endpoints) ==
    IF k > Len(order)
    THEN [methods |-> methods, skip |-> FALSE, endpoints |-> endpoints]
    ELSE LET endpoint == endpoints[order[k]]
         IN  IF endpoint.is_backend_api /\ ~all_endpoints
             THEN [methods |-> methods, skip |-> TRUE,
                   endpoints |-> endpoints]
             ELSE LET step == endpoint_step(endpoint)
                  IN  walk_endpoints(
                          [endpoints EXCEPT ![order[k]] = step.endpoint],
                          order, k + 1,
                          (lower(endpoint.method) :> step.operation)
                              @@ methods,
                          all_endpoints)

\* line 261: the registered paths in ascending order
RECURSIVE sorted_paths(_)
sorted_paths(S) ==
    IF S = {} THEN <<>>
    ELSE LET least == CHOOSE x \in S : \A y \in S : x <= y
         IN  <<least>> \o sorted_paths(S \ {least})

\* lines 261-325: "for path, endpoints in sorted(...)" over todo
RECURSIVE walk_paths(_, _, _, _)
walk_paths(todo, paths, registry, all_endpoints) ==
    IF todo = <<>> THEN [paths |-> paths, registry |-> registry]
    ELSE LET path == Head(todo)
             endpoints == registry[path]
             walked == walk_endpoints(endpoints, sorted_by_method(endpoints),
                                      1, <<>>, all_endpoints)
         IN  walk_paths(Tail(todo),
                        IF ~walked.skip THEN (path :> walked.methods) @@ paths
                        ELSE paths,
                        [registry EXCEPT ![path] = walked.endpoints],
                        all_endpoints)

\* returns the paths and the registry as the generation leaves it
_gen_paths(registry, all_endpoints) ==
    walk_paths(sorted_paths(DOMAIN registry), <<>>, registry, all_endpoints)

---------------------------------------------------------------------------
(* Docs._gen_spec, api_json, api_all_json.  host, servers and schemes come *)
(* from the HTTP request and are left out of the document.                 *)

\* lines 331-360, given the paths of line 337 and the tags of line 356
_gen_spec(paths, tags, all_endpoints, base_url) ==
    LET url == IF all_endpoints THEN "" ELSE base_url
    IN  [openapi |-> "3.0.0",
         basePath |-> IF url = "" THEN "/" ELSE url,
         tags |-> tags,
         paths |-> paths]

---------------------------------------------------------------------------
(* Document runs: the registry as registered at startup, then any number  *)
(* of requests for the public (api.json) and the full (api-all.json)      *)
(* document.                                                              *)

c_Subsystem == <<"S","u","b","s","y","s","t","e","m">>
c_Gateway == <<"G","a","t","e","w","a","y">>
t_Admin == <<"A","d","m","i","n">>
t_Misc == <<"M","i","s","c">>

Host == [__name__ |-> c_Host]
Subsystem ==
    [__name__ |-> c_Subsystem,
     doc_info |-> [tag |-> <<>>, tag_descr |-> "Subsystem management"]]
Gateway ==
    [__name__ |-> c_Gateway,
     doc_info |-> [tag |-> t_Admin, tag_descr |-> ""]]

\* a handler described with EndpointDoc: an override of "name" by name and
\* a field "port" nested in it
described_func ==
    [__doc__ |-> "Create or update.",
     doc_info |->
        [summary |-> "Create", tag |-> <<>>,
         response |-> ("201" :> <<[name |-> n_id, required |-> TRUE,
                                   type |-> "int"]>>),
         parameters |->
            <<[name |-> n_name, type |-> "str", description |-> "The name",
               required |-> TRUE, nested |-> FALSE],
              [name |-> n_port, type |-> "int", description |-> "port",
               required |-> TRUE, nested |-> TRUE]>>]]

\* a handler with a tag of its own
tagged_func ==
    [__doc__ |-> "Misc.",
     doc_info |-> [summary |-> "", tag |-> t_Misc, response |-> <<>>,
                   parameters |-> <<>>]]

\* a handler whose body parameters come from a marshmallow schema
schema_func ==
    [__doc__ |-> "Create from schema.",
     body_params_schema |-> TRUE,
     doc_info |->
        [summary |-> "", tag |-> <<>>, response |-> <<>>,
         parameters |->
            <<[name |-> n_port, type |-> "int", description |-> "port",
               required |-> TRUE, nested |-> FALSE]>>]]

p_id == [name |-> n_id, required |-> TRUE]
p_name == [name |-> n_name, required |-> TRUE]
p_count == [name |-> count, required |-> FALSE, default |-> PyNone]
p_force == [name |-> n_force, required |-> FALSE, default |-> PyFalse]

EndpointPool ==
    { [method |-> "GET", ctrl |-> Host, func |-> plain_func,
       path_params |-> <<>>, query_params |-> <<p_count>>,
       body_params |-> <<>>, is_backend_api |-> FALSE],
      [method |-> "POST", ctrl |-> Host, func |-> described_func,
       path_params |-> <<>>, query_params |-> <<p_force>>,
       body_params |-> <<>>, is_backend_api |-> FALSE],
      [method |-> "PUT", ctrl |-> Subsystem, func |-> described_func,
       path_params |-> <<p_id>>, query_params |-> <<p_force>>,
       body_params |-> <<p_name>>, is_backend_api |-> FALSE],
      [method |-> "DELETE", ctrl |-> Subsystem, func |-> plain_func,
       path_params |-> <<p_id>>, query_params |-> <<>>,
       body_params |-> <<>>, is_backend_api |-> TRUE],
      [method |-> "PUT", ctrl |-> Gateway, func |-> tagged_func,
       path_params |-> <<>>, query_params |-> <<>>,
       body_params |-> <<>>, is_backend_api |-> TRUE],
      [method |-> "POST", ctrl |-> Gateway, func |-> schema_func,
       path_params |-> <<>>, query_params |-> <<>>,
       body_params |-> <<p_name>>, is_backend_api |-> FALSE] }

\* the endpoints of one path, in the order of registration: one per method
PathEndpoints ==
    {q \in DistinctSeqs(EndpointPool, MaxEndpoints) :
        /\ Len(q) >= 1
        /\ \A i, j \in 1..Len(q) : i # j => q[i].method # q[j].method}

Registries ==
    {(1 :> q) : q \in PathEndpoints}
    \cup {(1 :> q[1]) @@ (2 :> q[2]) : q \in
             {q \in PathEndpoints \X PathEndpoints :
                 Len(q[1]) + Len(q[2]) <= MaxEndpoints}}

Init ==
    /\ pc = "call"
    /\ ENDPOINT_MAP \in Registries
    /\ request = None
    /\ response = None
    /\ ngen = 0

\* one request for a document: the handler runs _gen_spec to its end
generate(all_endpoints) ==
    /\ ngen < MaxGen
    /\ LET generated == _gen_paths(ENDPOINT_MAP, all_endpoints)
       IN  /\ \E order \in
                  Orderings(list_of_ctrl(ENDPOINT_MAP, all_endpoints)) :
                 response' = _gen_spec(
                     generated.paths,
                     _gen_tags(generated.registry, all_endpoints, order),
                     all_endpoints, "/")
           /\ ENDPOINT_MAP' = generated.registry
    /\ request' = [all_endpoints |-> all_endpoints]
    /\ pc' = "return"
    /\ ngen' = ngen + 1

api_json == generate(FALSE)

api_all_json == generate(TRUE)

Next == api_json \/ api_all_json

Spec == Init /\ [][Next]_vars

---------------------------------------------------------------------------
(* Properties of the generated document *)

MethodKey == [GET |-> "get", POST |-> "post", PUT |-> "put",
              DELETE |-> "delete"]

HasInternal(endpoints) ==
    \E i \in 1..Len(endpoints) : endpoints[i].is_backend_api

\* the endpoint registered at path for the method of operation key m
EndpointAt(path, m) ==
    LET endpoints == ENDPOINT_MAP[path]
    IN  endpoints[CHOOSE i \in 1..Len(endpoints) :
                      MethodKey[endpoints[i].method] = m]

HasFuncTag(endpoint) ==
    /\ "doc_info" \in DOMAIN endpoint.func
    /\ Len(endpoint.func.doc_info.tag) > 0

\* C1: path filtering is all-or-nothing per path: a path with at least one
\* internal-only endpoint is absent from the public document, whatever the
\* methods and order of its other endpoints, and present in the full
\* document with one operation for every method registered at it; a path
\* with no internal-only endpoint is present in both documents.
C1_PathFilter ==
    pc = "return" =>
        /\ DOMAIN response.paths \subseteq DOMAIN ENDPOINT_MAP
        /\ \A path \in DOMAIN ENDPOINT_MAP :
              LET endpoints == ENDPOINT_MAP[path]
                  registered == {MethodKey[endpoints[i].method] :
                                    i \in 1..Len(endpoints)}
              IN  IF HasInternal(endpoints) /\ ~request.all_endpoints
                  THEN path \notin DOMAIN response.paths
                  ELSE /\ path \in DOMAIN response.paths
                       /\ DOMAIN response.paths[path] = registered

\* the public document leaves out a path whose first registered endpoint
\* is public and whose second is internal, and keeps the other path
C1_Witness ==
    /\ pc = "return"
    /\ ~request.all_endpoints
    /\ DOMAIN ENDPOINT_MAP = {1, 2}
    /\ Len(ENDPOINT_MAP[1]) = 2
    /\ ENDPOINT_MAP[1][1].method = "GET"
    /\ ~ENDPOINT_MAP[1][1].is_backend_api
    /\ ENDPOINT_MAP[1][2].is_backend_api
    /\ DOMAIN response.paths = {2}

\* C9: an operation for GET or DELETE never has a requestBody; one for
\* POST or PUT has a requestBody exactly when the endpoint has body params
\* or query params; when it has both, the requestBody is the one built last,
\* from the merged query params: its properties are the names of the query
\* params (with the nested fields merged into them), not the body params.
C9_RequestBody ==
    pc = "return" =>
        \A path \in DOMAIN response.paths :
            \A m \in DOMAIN response.paths[path] :
                LET e == EndpointAt(path, m)
                    operation == response.paths[path][m]
                    p_info == IF "doc_info" \in DOMAIN e.func
                              THEN e.func.doc_info.parameters ELSE <<>>
                    nested == {p_info[k].name : k \in
                                  {k \in 1..Len(p_info) : p_info[k].nested}}
                    has_body == Len(e.body_params) > 0
                    has_query == Len(e.query_params) > 0
                IN  /\ "requestBody" \in DOMAIN operation
                        <=> (m \in {"post", "put"} /\ (has_body \/ has_query))
                    /\ (m \in {"post", "put"} /\ has_body /\ has_query)
                        => DOMAIN operation.requestBody.content[
                               "application/json"].schema.properties
                           = Names(e.query_params) \cup nested

\* a PUT with a body parameter "name" and a query parameter "force" got a
\* requestBody with "force" and without "name"
C9_Witness ==
    /\ pc = "return"
    /\ \E path \in DOMAIN response.paths :
          /\ "put" \in DOMAIN response.paths[path]
          /\ n_name \in Names(EndpointAt(path, "put").body_params)
          /\ n_force \in Names(EndpointAt(path, "put").query_params)
          /\ LET properties ==
                     response.paths[path]["put"].requestBody.content[
                         "application/json"].schema.properties
             IN  n_force \in DOMAIN properties
                     /\ n_name \notin DOMAIN properties

\* C10: when no handler of the registry carries a tag of its own, each
\* operation of the generated paths carries exactly one tag, the
\* controller's override if it is not empty and the controller's name
\* otherwise, and that tag is the name of an entry of the tags list
\* generated with the same flag.
C10_TagsListed ==
    (pc = "return" /\ \A e \in RegisteredEndpoints : ~HasFuncTag(e)) =>
        \A path \in DOMAIN response.paths :
            \A m \in DOMAIN response.paths[path] :
                LET tags == response.paths[path][m].tags
                IN  /\ Len(tags) = 1
                    /\ tags[1] = ClaimedTag(EndpointAt(path, m).ctrl)
                    /\ \E i \in 1..Len(response.tags) :
                          response.tags[i].name = tags[1]

\* an operation of a controller that overrides its tag is tagged with the
\* override, which the tags list names
C10_Witness ==
    /\ pc = "return"
    /\ \A e \in RegisteredEndpoints : ~HasFuncTag(e)
    /\ \E path \in DOMAIN response.paths :
          /\ "post" \in DOMAIN response.paths[path]
          /\ response.paths[path]["post"].tags = <<t_Admin>>
          /\ \E i \in 1..Len(response.tags) : response.tags[i].name = t_Admin

============================================================================
